---- MODULE Spec2Model ----
(***************************************************************************)
(* Model of ciocheck/vcs.py: the unified-diff parser of GitDiffTool, the   *)
(* diff providers (GitDiffTool, HgDiffTool, NoDiffTool) and the multi-root *)
(* aggregator DiffTool.                                                    *)
(*                                                                         *)
(* Text is modelled as a sequence of one-character strings, so that        *)
(* str.startswith, str.split and the three regular expressions are         *)
(* computed on the characters as Python computes them.  Python's None is   *)
(* the empty tuple and a present value v is the one-element tuple <<v>>.   *)
(***************************************************************************)
EXTENDS Integers, Sequences, FiniteSets, TLC

\* ------------------------------------------------------------------------
\* Bounds of the model
\* ------------------------------------------------------------------------

\* Longest diff text, in lines, that Init enumerates over the line alphabet.
MaxLines == 4

\* ------------------------------------------------------------------------
\* Python values
\* ------------------------------------------------------------------------

None == <<>>

Some(v) == <<v>>

\* A list, and a range(stop) object: the values of a (added, deleted) pair.
PyList(xs) == [type |-> "list", args |-> xs]

PyRange(stop) == [type |-> "range", args |-> <<stop>>]

\* ------------------------------------------------------------------------
\* Python str operations, on sequences of characters
\* ------------------------------------------------------------------------

\* str.startswith(prefix)
StartsWith(s, p) == Len(s) >= Len(p) /\ SubSeq(s, 1, Len(p)) = p

\* Where sub occurs in s at or after position from (1-based), 0 when nowhere.
FindFrom(s, sub, from) ==
    LET hits == {i \in from..(Len(s) - Len(sub) + 1) :
                     SubSeq(s, i, i + Len(sub) - 1) = sub}
    IN  IF hits = {} THEN 0 ELSE CHOOSE i \in hits : \A j \in hits : i <= j

\* `sub in s`
Contains(s, sub) == FindFrom(s, sub, 1) # 0

\* str.split(sep) for a non-empty separator: the pieces between the
\* occurrences of sep, scanning from the left, empty pieces kept.
RECURSIVE Split(_, _)
Split(s, sep) ==
    LET i == FindFrom(s, sep, 1)
    IN  IF i = 0
        THEN <<s>>
        ELSE <<SubSeq(s, 1, i - 1)>> \o Split(SubSeq(s, i + Len(sep), Len(s)), sep)

\* The longest prefix of s made only of characters of the set ok.
RECURSIVE TakeWhile(_, _)
TakeWhile(s, ok) ==
    IF s = <<>> \/ Head(s) \notin ok THEN <<>> ELSE <<Head(s)>> \o TakeWhile(Tail(s), ok)

\* The longest prefix of s holding no character of the set stop (a negated
\* character class, [^...]*).
RECURSIVE TakeUntil(_, _)
TakeUntil(s, stop) ==
    IF s = <<>> \/ Head(s) \in stop THEN <<>> ELSE <<Head(s)>> \o TakeUntil(Tail(s), stop)

Digits == {"0", "1", "2", "3", "4", "5", "6", "7", "8", "9"}

DigitValue(c) ==
    CASE c = "0" -> 0 [] c = "1" -> 1 [] c = "2" -> 2 [] c = "3" -> 3 [] c = "4" -> 4
      [] c = "5" -> 5 [] c = "6" -> 6 [] c = "7" -> 7 [] c = "8" -> 8 [] c = "9" -> 9

\* int(s) for a string of decimal digits; int('') raises ValueError, which the
\* caller tests for before calling this.
RECURSIVE IntOfDigits(_)
IntOfDigits(ds) ==
    IF ds = <<>> THEN 0
    ELSE IntOfDigits(SubSeq(ds, 1, Len(ds) - 1)) * 10 + DigitValue(ds[Len(ds)])

\* os.path.join(a, b) on POSIX: an absolute b replaces a; otherwise the two
\* are joined with exactly one separator.
OsPathJoin(a, b) ==
    IF StartsWith(b, <<"/">>) THEN b
    ELSE IF a = <<>> \/ a[Len(a)] = "/" THEN a \o b
    ELSE a \o <<"/">> \o b

\* ------------------------------------------------------------------------
\* Ordered dictionaries: a sequence of [key, val] records in insertion order
\* ------------------------------------------------------------------------

DictKeys(d) == {d[i].key : i \in 1..Len(d)}

DictHas(d, k) == \E i \in 1..Len(d) : d[i].key = k

DictGet(d, k) == d[CHOOSE i \in 1..Len(d) : d[i].key = k].val

\* d[k] = v: an existing key keeps its place, a new key goes last.
DictSet(d, k, v) ==
    IF DictHas(d, k)
    THEN [i \in 1..Len(d) |-> IF d[i].key = k THEN [key |-> k, val |-> v] ELSE d[i]]
    ELSE Append(d, [key |-> k, val |-> v])

\* ------------------------------------------------------------------------
\* GitDiffTool: the regular expressions
\* ------------------------------------------------------------------------

S_diff_git == <<"d", "i", "f", "f", " ", "-", "-", "g", "i", "t">>

S_diff_cc == <<"d", "i", "f", "f", " ", "-", "-", "c", "c">>

S_git == <<"-", "-", "g", "i", "t">>

S_cc == <<"-", "-", "c", "c">>

S_atat == <<"@", "@">>

\* Where pattern `"? "?b/` matches in s at position k+1 (after the k
\* characters that `.*` took): the position right after "b/", else 0.
SrcTailAt(s, k) ==
    LET q1 == IF k + 1 <= Len(s) /\ s[k + 1] = "\"" THEN 1 ELSE 0
        sp == k + q1 + 1
        q2 == IF sp + 1 <= Len(s) /\ s[sp + 1] = "\"" THEN 1 ELSE 0
        b  == sp + q2 + 1
    IN  IF sp <= Len(s) /\ s[sp] = " " /\ b + 1 <= Len(s) /\ s[b] = "b" /\ s[b + 1] = "/"
        THEN b + 2
        ELSE 0

\* SRC_FILE_RE.findall(line) for
\*   ^diff --git "?a/.*"? "?b/([^ \n"]*)"?
\* The pattern is anchored, so there is at most one match; `.*` is greedy,
\* so the match is the one whose `.*` is longest; the result is the list of
\* the captured group.
SRC_FILE_RE_findall(line) ==
    LET pre == S_diff_git \o <<" ">>
        q0  == IF StartsWith(line, pre \o <<"\"">>) THEN 1 ELSE 0
        a   == Len(pre) + q0 + 1
        ok  == StartsWith(line, pre) /\ a + 1 <= Len(line)
                 /\ line[a] = "a" /\ line[a + 1] = "/"
        ks  == {k \in (a + 1)..Len(line) : SrcTailAt(line, k) # 0}
    IN  IF ~ok \/ ks = {} THEN <<>>
        ELSE LET k == CHOOSE x \in ks : \A y \in ks : y <= x
                 c == SrcTailAt(line, k)
             IN  <<TakeUntil(SubSeq(line, c, Len(line)), {" ", "\n", "\""})>>

\* MERGE_CONFLICT_RE.findall(line) for  ^diff --cc ([^ \n]*)
MERGE_CONFLICT_RE_findall(line) ==
    LET pre == S_diff_cc \o <<" ">>
    IN  IF StartsWith(line, pre)
        THEN <<TakeUntil(SubSeq(line, Len(pre) + 1, Len(line)), {" ", "\n"})>>
        ELSE <<>>

\* HUNK_LINE_RE.findall(s) for  \+([0-9]*) : one group per "+", the digits
\* that follow it (possibly none), left to right.
RECURSIVE HUNK_LINE_RE_findall(_)
HUNK_LINE_RE_findall(s) ==
    LET i == FindFrom(s, <<"+">>, 1)
    IN  IF i = 0 THEN <<>>
        ELSE LET ds == TakeWhile(SubSeq(s, i + 1, Len(s)), Digits)
             IN  <<ds>> \o HUNK_LINE_RE_findall(SubSeq(s, i + 1 + Len(ds), Len(s)))

\* ------------------------------------------------------------------------
\* GitDiffTool: the parser's functions.  A function that can raise returns
\* [err |-> the exception's message or None, val |-> its value].
\* ------------------------------------------------------------------------

Ok(v) == [err |-> None, val |-> v]

Raise(msg) == [err |-> Some(msg), val |-> None]

\* _parse_source_line(line)
parse_source_line(line) ==
    IF ~Contains(line, S_git) /\ ~Contains(line, S_cc)
    THEN Raise("Do not recognize format of source in line")
    ELSE LET groups == IF Contains(line, S_git)
                       THEN SRC_FILE_RE_findall(line)
                       ELSE MERGE_CONFLICT_RE_findall(line)
         IN  IF Len(groups) = 1
             THEN Ok(groups[1])
             ELSE Raise("Could not parse source path in line")

\* A variant of _parse_hunk_line that takes the first '+' group when there
\* are several.
parse_hunk_line_FirstGroup(line) ==
    LET components == Split(line, S_atat)
    IN  IF Len(components) >= 2
        THEN LET groups == HUNK_LINE_RE_findall(components[2])
             IN  IF Len(groups) >= 1
                 THEN IF groups[1] = <<>>
                      THEN Raise("Could not parse as a line number")
                      ELSE Ok(IntOfDigits(groups[1]))
                 ELSE Raise("Could not find start of hunk in line")
        ELSE Raise("Could not parse hunk in line")

\* _parse_hunk_line(line)
parse_hunk_line(line) ==
    LET components == Split(line, S_atat)
    IN  IF Len(components) >= 2
        THEN LET groups == HUNK_LINE_RE_findall(components[2])
             IN  IF Len(groups) = 1
                 THEN IF groups[1] = <<>>
                      THEN Raise("Could not parse as a line number")
                      ELSE Ok(IntOfDigits(groups[1]))
                 ELSE Raise("Could not find start of hunk in line")
        ELSE Raise("Could not parse hunk in line")

\* A variant of the section loop in which a file header leaves found_hunk
\* as it was.
parse_source_sections_line_KeepsFoundHunk(st, line) ==
    IF StartsWith(line, S_diff_git) \/ StartsWith(line, S_diff_cc)
    THEN LET r == parse_source_line(line)
         IN  IF r.err # None
             THEN [st EXCEPT !.err = r.err]
             ELSE [st EXCEPT !.src_path = Some(r.val),
                             !.source_dict = IF DictHas(st.source_dict, r.val)
                                             THEN st.source_dict
                                             ELSE DictSet(st.source_dict, r.val, <<>>)]
    ELSE IF st.found_hunk \/ StartsWith(line, S_atat)
         THEN IF st.src_path # None
              THEN [st EXCEPT !.found_hunk = TRUE,
                              !.source_dict =
                                  DictSet(st.source_dict, st.src_path[1],
                                          Append(DictGet(st.source_dict, st.src_path[1]), line))]
              ELSE IF StartsWith(line, S_atat)
                   THEN [st EXCEPT !.found_hunk = TRUE,
                                   !.err = Some("Hunk has no source file")]
                   ELSE [st EXCEPT !.found_hunk = TRUE]
         ELSE st

\* A variant of the section loop that creates a file's entry only when its
\* first retained line arrives, not at the header.
parse_source_sections_line_EntryAtHunk(st, line) ==
    IF StartsWith(line, S_diff_git) \/ StartsWith(line, S_diff_cc)
    THEN LET r == parse_source_line(line)
         IN  IF r.err # None
             THEN [st EXCEPT !.err = r.err]
             ELSE [st EXCEPT !.src_path = Some(r.val), !.found_hunk = FALSE]
    ELSE IF st.found_hunk \/ StartsWith(line, S_atat)
         THEN IF st.src_path # None
              THEN [st EXCEPT !.found_hunk = TRUE,
                              !.source_dict =
                                  DictSet(st.source_dict, st.src_path[1],
                                          Append(IF DictHas(st.source_dict, st.src_path[1])
                                                 THEN DictGet(st.source_dict, st.src_path[1])
                                                 ELSE <<>>, line))]
              ELSE IF StartsWith(line, S_atat)
                   THEN [st EXCEPT !.found_hunk = TRUE,
                                   !.err = Some("Hunk has no source file")]
                   ELSE [st EXCEPT !.found_hunk = TRUE]
         ELSE st

\* A variant of the section loop that drops a hunk marker met before the
\* first file header instead of raising.
parse_source_sections_line_NoRaise(st, line) ==
    IF StartsWith(line, S_diff_git) \/ StartsWith(line, S_diff_cc)
    THEN LET r == parse_source_line(line)
         IN  IF r.err # None
             THEN [st EXCEPT !.err = r.err]
             ELSE [st EXCEPT !.src_path = Some(r.val),
                             !.source_dict = IF DictHas(st.source_dict, r.val)
                                             THEN st.source_dict
                                             ELSE DictSet(st.source_dict, r.val, <<>>),
                             !.found_hunk = FALSE]
    ELSE IF st.found_hunk \/ StartsWith(line, S_atat)
         THEN IF st.src_path # None
              THEN [st EXCEPT !.found_hunk = TRUE,
                              !.source_dict =
                                  DictSet(st.source_dict, st.src_path[1],
                                          Append(DictGet(st.source_dict, st.src_path[1]), line))]
              ELSE [st EXCEPT !.found_hunk = TRUE]
         ELSE st

\* One iteration of the loop of _parse_source_sections over the lines of the
\* diff: st holds the locals source_dict, src_path and found_hunk.
parse_source_sections_line(st, line) ==
    IF StartsWith(line, S_diff_git) \/ StartsWith(line, S_diff_cc)
    THEN LET r == parse_source_line(line)
         IN  IF r.err # None
             THEN [st EXCEPT !.err = r.err]
             ELSE [st EXCEPT !.src_path = Some(r.val),
                             !.source_dict = IF DictHas(st.source_dict, r.val)
                                             THEN st.source_dict
                                             ELSE DictSet(st.source_dict, r.val, <<>>),
                             !.found_hunk = FALSE]
    ELSE IF st.found_hunk \/ StartsWith(line, S_atat)
         THEN IF st.src_path # None
              THEN [st EXCEPT !.found_hunk = TRUE,
                              !.source_dict =
                                  DictSet(st.source_dict, st.src_path[1],
                                          Append(DictGet(st.source_dict, st.src_path[1]), line))]
              ELSE IF StartsWith(line, S_atat)
                   THEN [st EXCEPT !.found_hunk = TRUE,
                                   !.err = Some("Hunk has no source file")]
                   ELSE [st EXCEPT !.found_hunk = TRUE]
         ELSE st

\* The locals of _parse_source_sections before its loop.
SectionsStart == [source_dict |-> <<>>, src_path |-> None, found_hunk |-> FALSE, err |-> None]

\* A variant of the line loop in which an added line advances the old
\* counter as well.
parse_lines_line_PlusAdvancesOld(st, line) ==
    IF StartsWith(line, S_atat)
    THEN LET r == parse_hunk_line(line)
         IN  IF r.err # None
             THEN [st EXCEPT !.err = r.err]
             ELSE [st EXCEPT !.current_line_new = Some(r.val),
                             !.current_line_old = Some(r.val)]
    ELSE IF StartsWith(line, <<"+">>)
    THEN IF st.current_line_new # None
         THEN [st EXCEPT !.added_lines = Append(@, st.current_line_new[1]),
                         !.current_line_new = Some(st.current_line_new[1] + 1),
                         !.current_line_old = IF @ # None THEN Some(@[1] + 1) ELSE @]
         ELSE st
    ELSE IF StartsWith(line, <<"-">>)
    THEN IF st.current_line_old # None
         THEN [st EXCEPT !.deleted_lines = Append(@, st.current_line_old[1]),
                         !.current_line_old = Some(st.current_line_old[1] + 1)]
         ELSE st
    ELSE [st EXCEPT !.current_line_old = IF @ # None THEN Some(@[1] + 1) ELSE @,
                    !.current_line_new = IF @ # None THEN Some(@[1] + 1) ELSE @]

\* A variant of the line loop in which a hunk marker sets the counters only
\* when they are unset, so that a later hunk continues from the previous one.
parse_lines_line_MarkerKeepsCounters(st, line) ==
    IF StartsWith(line, S_atat)
    THEN LET r == parse_hunk_line(line)
         IN  IF r.err # None
             THEN [st EXCEPT !.err = r.err]
             ELSE [st EXCEPT !.current_line_new = IF @ = None THEN Some(r.val) ELSE @,
                             !.current_line_old = IF @ = None THEN Some(r.val) ELSE @]
    ELSE IF StartsWith(line, <<"+">>)
    THEN IF st.current_line_new # None
         THEN [st EXCEPT !.added_lines = Append(@, st.current_line_new[1]),
                         !.current_line_new = Some(st.current_line_new[1] + 1)]
         ELSE st
    ELSE IF StartsWith(line, <<"-">>)
    THEN IF st.current_line_old # None
         THEN [st EXCEPT !.deleted_lines = Append(@, st.current_line_old[1]),
                         !.current_line_old = Some(st.current_line_old[1] + 1)]
         ELSE st
    ELSE [st EXCEPT !.current_line_old = IF @ # None THEN Some(@[1] + 1) ELSE @,
                    !.current_line_new = IF @ # None THEN Some(@[1] + 1) ELSE @]

\* One iteration of the loop of _parse_lines over the retained lines of one
\* file: st holds added_lines, deleted_lines and the two running counters.
parse_lines_line(st, line) ==
    IF StartsWith(line, S_atat)
    THEN LET r == parse_hunk_line(line)
         IN  IF r.err # None
             THEN [st EXCEPT !.err = r.err]
             ELSE [st EXCEPT !.current_line_new = Some(r.val),
                             !.current_line_old = Some(r.val)]
    ELSE IF StartsWith(line, <<"+">>)
    THEN IF st.current_line_new # None
         THEN [st EXCEPT !.added_lines = Append(@, st.current_line_new[1]),
                         !.current_line_new = Some(st.current_line_new[1] + 1)]
         ELSE st
    ELSE IF StartsWith(line, <<"-">>)
    THEN IF st.current_line_old # None
         THEN [st EXCEPT !.deleted_lines = Append(@, st.current_line_old[1]),
                         !.current_line_old = Some(st.current_line_old[1] + 1)]
         ELSE st
    ELSE [st EXCEPT !.current_line_old = IF @ # None THEN Some(@[1] + 1) ELSE @,
                    !.current_line_new = IF @ # None THEN Some(@[1] + 1) ELSE @]

\* The locals of _parse_lines before its loop.
LinesStart ==
    [added_lines |-> <<>>, deleted_lines |-> <<>>,
     current_line_new |-> None, current_line_old |-> None, err |-> None]

\* A loop over the lines with an exception ending it.
RECURSIVE FoldSections(_, _)
FoldSections(st, ls) ==
    IF ls = <<>> \/ st.err # None THEN st
    ELSE FoldSections(parse_source_sections_line(st, Head(ls)), Tail(ls))

RECURSIVE FoldLines(_, _)
FoldLines(st, ls) ==
    IF ls = <<>> \/ st.err # None THEN st
    ELSE FoldLines(parse_lines_line(st, Head(ls)), Tail(ls))

\* _parse_source_sections(diff_str)
parse_source_sections(diff_str) ==
    LET st == FoldSections(SectionsStart, Split(diff_str, <<"\n">>))
    IN  IF st.err # None THEN [err |-> st.err, val |-> None] ELSE Ok(st.source_dict)

\* _parse_lines(diff_lines): the pair (added_lines, deleted_lines)
parse_lines(diff_lines) ==
    LET st == FoldLines(LinesStart, diff_lines)
    IN  IF st.err # None THEN [err |-> st.err, val |-> None]
        ELSE Ok([added |-> PyList(st.added_lines), deleted |-> PyList(st.deleted_lines)])

\* ------------------------------------------------------------------------
\* ciocheck.utils.make_sorted_dict: the dictionary re-ordered by key
\* ------------------------------------------------------------------------

\* The characters of the model's texts in code-point order (str comparison
\* compares code points).
CodeOrder ==
    <<"NUL", "\n", " ", "\"", "+", ",", "-", ".", "/",
      "0", "1", "2", "3", "4", "5", "6", "7", "8", "9", "@", "N", "\\",
      "a", "b", "c", "d", "e", "f", "g", "h", "i", "j", "k", "l", "m", "n", "o",
      "p", "q", "r", "s", "t", "u", "v", "w", "x", "y", "z">>

CodeRank(c) == CHOOSE i \in 1..Len(CodeOrder) : CodeOrder[i] = c

\* a < b for two strings
RECURSIVE StrLess(_, _)
StrLess(a, b) ==
    IF b = <<>> THEN FALSE
    ELSE IF a = <<>> THEN TRUE
    ELSE IF Head(a) = Head(b) THEN StrLess(Tail(a), Tail(b))
    ELSE CodeRank(Head(a)) < CodeRank(Head(b))

\* sorted(S) for a set of strings
RECURSIVE SortedOfSet(_)
SortedOfSet(S) ==
    IF S = {} THEN <<>>
    ELSE LET m == CHOOSE x \in S : \A y \in S \ {x} : StrLess(x, y)
         IN  <<m>> \o SortedOfSet(S \ {m})

\* make_sorted_dict(d)
make_sorted_dict(d) ==
    LET ks == SortedOfSet(DictKeys(d))
    IN  [i \in 1..Len(ks) |-> [key |-> ks[i], val |-> DictGet(d, ks[i])]]

\* ------------------------------------------------------------------------
\* The diff texts the parser is run on
\* ------------------------------------------------------------------------

L_header_foo ==
    <<"d", "i", "f", "f", " ", "-", "-", "g", "i", "t", " ", "a", "/", "f", "o", "o",
      ".", "p", "y", " ", "b", "/", "f", "o", "o", ".", "p", "y">>

L_header_bar == <<"d", "i", "f", "f", " ", "-", "-", "c", "c", " ", "b", "a", "r", ".", "p", "y">>

L_index ==
    <<"i", "n", "d", "e", "x", " ", "1", "1", "1", ".", ".", "2", "2", "2", " ",
      "1", "0", "0", "6", "4", "4">>

L_minus3 == <<"-", "-", "-", " ", "a", "/", "f", "o", "o", ".", "p", "y">>

L_plus3 == <<"+", "+", "+", " ", "b", "/", "f", "o", "o", ".", "p", "y">>

L_hunk_1 == <<"@", "@", " ", "-", "1", ",", "3", " ", "+", "1", ",", "4", " ", "@", "@">>

L_hunk_11 ==
    <<"@", "@", " ", "-", "1", "0", ",", "2", " ", "+", "1", "1", ",", "3", " ", "@", "@">>

L_hunk_1_6 == <<"@", "@", " ", "-", "1", ",", "6", " ", "+", "1", ",", "2", " ", "@", "@">>

L_hunk_8_4 == <<"@", "@", " ", "-", "8", ",", "2", " ", "+", "4", ",", "1", " ", "@", "@">>

L_line1 == <<" ", "l", "i", "n", "e", "1">>

L_line2 == <<"+", "l", "i", "n", "e", "2">>

L_line3 == <<" ", "l", "i", "n", "e", "3">>

L_line4 == <<"-", "l", "i", "n", "e", "4">>

L_line5 == <<" ", "l", "i", "n", "e", "5">>

P_foo == <<"f", "o", "o", ".", "p", "y">>

P_bar == <<"b", "a", "r", ".", "p", "y">>

P_r == <<"/", "r">>

\* '\n'.join(ls)
RECURSIVE JoinLines(_)
JoinLines(ls) ==
    IF ls = <<>> THEN <<>>
    ELSE IF Len(ls) = 1 THEN ls[1]
    ELSE ls[1] \o <<"\n">> \o JoinLines(Tail(ls))

\* The lines the enumerated texts are made of: the two header forms, two
\* hunk markers, an added, a removed and a context line.
Alphabet == {L_header_foo, L_header_bar, L_hunk_1, L_hunk_11, L_line2, L_line4, L_line1}

\* The text of the specification's concrete scenario (foo.py, one hunk).
ScenarioLines ==
    <<L_header_foo, L_index, L_minus3, L_plus3, L_hunk_1,
      L_line1, L_line2, L_line3, L_line4, L_line5>>

\* One file with two hunks, one added line right after each marker.
TwoHunkLines == <<L_header_foo, L_hunk_1, L_line2, L_hunk_11, L_line2>>

\* A diff as git prints it for an 8-line file of which lines 2-5 and 8 were
\* removed: old lines 1-6 become new lines 1-2, old lines 8-9 new lines 4.
BigDeletionLines ==
    <<L_header_foo, L_hunk_1_6, <<" ", "a">>, <<"-", "b">>, <<"-", "c">>, <<"-", "d">>,
      <<"-", "e">>, <<" ", "f">>, L_hunk_8_4, <<"-", "x">>, <<" ", "y">>>>

\* Each scenario as git prints it (a newline ends the last line) and bare.
ScenarioTexts ==
    {JoinLines(ls) : ls \in {ScenarioLines, TwoHunkLines, BigDeletionLines}}
      \cup {JoinLines(ls) \o <<"\n">> : ls \in {ScenarioLines, TwoHunkLines, BigDeletionLines}}

EnumeratedTexts ==
    {JoinLines(ls) : ls \in UNION {[1..n -> Alphabet] : n \in 0..MaxLines}}

\* A section whose hunk holds blank lines, after a section with metadata
\* lines only and before one whose hunk follows its metadata lines.
BlankLinesLines ==
    <<L_header_bar, L_index, L_header_foo, L_minus3, L_plus3, L_hunk_1, L_line2, <<>>,
      L_line4, <<>>, L_header_bar, L_plus3, L_hunk_11, <<>>, L_line2>>

\* Hunk markers and hunk-like lines, well-formed and not.
L_hunk_excerpt == <<"@", "@", " ", "-", "1", ",", "3", " ", "+", "7", ",", "4", " ", "@", "@", " ", "x", " ", "=", " ", "a", " ", "+", " ", "b">>

L_hunk_open == <<"@", "@", " ", "-", "1", " ", "+", "5">>

L_hunk_noplus == <<"@", "@", " ", "-", "1", ",", "3", " ", "@", "@">>

L_hunk_twoplus == <<"@", "@", " ", "-", "1", ",", "3", " ", "+", "1", ",", "4", " ", "+", "2", " ", "@", "@">>

L_hunk_nodigits == <<"@", "@", " ", "-", "1", ",", "3", " ", "+", ",", "4", " ", "@", "@">>

L_hunk_bare == <<"@", "@">>

L_hunk_late == <<"@", "@", "@", "@", " ", "+", "3">>

HunkProbes ==
    {L_hunk_1, L_hunk_11, L_hunk_excerpt, L_hunk_open, L_hunk_noplus, L_hunk_twoplus,
     L_hunk_nodigits, L_hunk_bare, L_hunk_late}

\* A file whose hunk-like line is followed by one added line, and the same
\* after a first well-formed hunk.
ProbeTexts ==
    {JoinLines(<<L_header_foo, h, L_line2>>) : h \in HunkProbes}
      \cup {JoinLines(<<L_header_foo, L_hunk_1, L_line2, h, L_line2>>) : h \in HunkProbes}

\* Longest body of a generated hunk.
MaxBody == 3

\* The lines of a hunk body by kind: context, added, removed, and git's
\* marker for a last line without a newline.
L_context == <<" ", "c">>

L_added == <<"+", "a">>

L_removed == <<"-", "d">>

L_no_newline == <<"\\", " ", "N", "o", " ", "n", "e", "w", "l", "i", "n", "e", " ", "a", "t", " ", "e", "n", "d", " ", "o", "f", " ", "f", "i", "l", "e">>

BodyKinds == {" ", "+", "-", "\\"}

BodyLine(k) ==
    CASE k = " " -> L_context [] k = "+" -> L_added [] k = "-" -> L_removed
      [] k = "\\" -> L_no_newline

\* The bodies git can print: the no-newline marker follows the last line of
\* the old file (then only added lines follow) or the last line of the hunk.
WellFormedBody(b) ==
    \A i \in 1..Len(b) :
        b[i] = "\\"
            => /\ i > 1
               /\ b[i - 1] # "\\"
               /\ IF b[i - 1] = "-"
                  THEN \A j \in (i + 1)..Len(b) : b[j] \in {"+", "\\"}
                  ELSE i = Len(b)

Bodies == {b \in UNION {[1..n -> BodyKinds] : n \in 1..MaxBody} : WellFormedBody(b)}

\* How many of the first n lines of body b have a kind in ks.
CountKinds(b, n, ks) == Cardinality({j \in 1..n : b[j] \in ks})

DigitChar(d) == CHOOSE c \in Digits : DigitValue(c) = d

\* str(n) for 0 <= n < 100
DigitsOf(n) == IF n < 10 THEN <<DigitChar(n)>> ELSE <<DigitChar(n \div 10), DigitChar(n % 10)>>

\* One side of a hunk marker as git prints it: start,len, the len left out
\* when 1, and the line before the hunk when the side is empty.
SideText(start, len) ==
    IF len = 1 THEN DigitsOf(start)
    ELSE IF len = 0 THEN DigitsOf(start - 1) \o <<",", "0">>
    ELSE DigitsOf(start) \o <<",">> \o DigitsOf(len)

\* The marker of the hunk whose body b begins at line o of the old file and
\* line n of the new one.
MarkerOf(o, n, b) ==
    <<"@", "@", " ", "-">> \o SideText(o, CountKinds(b, Len(b), {" ", "-"}))
      \o <<" ", "+">> \o SideText(n, CountKinds(b, Len(b), {" ", "+"}))
      \o <<" ", "@", "@">>

BodyLines(b) == [i \in 1..Len(b) |-> BodyLine(b[i])]

\* foo.py with the one hunk of body b at the top of the file.
FirstHunkLines(b) == <<L_header_foo, MarkerOf(1, 1, b)>> \o BodyLines(b)

\* foo.py with a first hunk that adds line 2 after line 1, then the hunk of
\* body b at old line 10, which is new line 11.
SecondHunkLines(b) ==
    <<L_header_foo, MarkerOf(1, 1, <<" ", "+">>), L_context, L_added, MarkerOf(10, 11, b)>>
      \o BodyLines(b)

HunkTexts ==
    {JoinLines(FirstHunkLines(b)) : b \in Bodies}
      \cup {JoinLines(SecondHunkLines(b)) : b \in Bodies}

DiffTexts ==
    EnumeratedTexts \cup ScenarioTexts \cup {JoinLines(BlankLinesLines)}
      \cup ProbeTexts \cup HunkTexts

\* ------------------------------------------------------------------------
\* State
\* ------------------------------------------------------------------------

VARIABLES
    diff_str,           \* _parse_diff_str: the argument
    top_level,          \* GitDiffTool._top_level of the instance parsing
    pc,                 \* where _parse_diff_str is: call, sections, file, lines, done, error
    lines,              \* _parse_source_sections: diff_str.split('\n')
    idx,                \* _parse_source_sections: lines consumed by its loop
    source_dict,        \* _parse_source_sections: source_dict
    src_path,           \* _parse_source_sections: src_path
    found_hunk,         \* _parse_source_sections: found_hunk
    sec,                \* _parse_diff_str: position in sections_dict.items()
    full_src_path,      \* _parse_diff_str: full_src_path
    lidx,               \* _parse_lines: lines consumed by its loop
    added_lines,        \* _parse_lines: added_lines
    deleted_lines,      \* _parse_lines: deleted_lines
    current_line_new,   \* _parse_lines: current_line_new
    current_line_old,   \* _parse_lines: current_line_old
    diff_dict,          \* _parse_diff_str: diff_dict
    result,             \* the value the call returned
    error,              \* the message of the exception the call raised
    changed,            \* the working trees: per change mode, the files git reports
    paths,              \* DiffTool.paths
    diff_tools,         \* DiffTool.diff_tools, an ordered dictionary
    apc,                \* where the DiffTool is: init (in __init__), ready
    pi,                 \* DiffTool.__init__: position of path in self.paths
    ti,                 \* DiffTool.__init__: position of diff_tool in TOOLS
    op,                 \* the last public operation called on the DiffTool
    ret,                \* the value that operation returned
    exc,                \* the exception that operation raised
    cmds,               \* the external commands that operation ran, in order
    printed,            \* what that operation printed, in order
    provider,           \* a GitDiffTool instance called on its own
    targs,              \* the arguments of the last call on that instance
    is_repo_log         \* the is_repo() calls on it so far: verdict, commands run

parser_vars ==
    <<diff_str, top_level, pc, lines, idx, source_dict, src_path, found_hunk, sec,
      full_src_path, lidx, added_lines, deleted_lines, current_line_new,
      current_line_old, diff_dict, result, error>>

agg_vars == <<changed, paths, diff_tools, apc, pi, ti, op, ret, exc, cmds, printed>>

tool_vars == <<provider, targs, is_repo_log>>

vars == <<parser_vars, agg_vars, tool_vars>>

\* ------------------------------------------------------------------------
\* The parser, one loop iteration per step
\* ------------------------------------------------------------------------

ParserInit ==
    /\ diff_str \in DiffTexts
    /\ top_level = Some(P_r)
    /\ pc = "call"
    /\ lines = <<>>
    /\ idx = 0
    /\ source_dict = <<>>
    /\ src_path = None
    /\ found_hunk = FALSE
    /\ sec = 0
    /\ full_src_path = None
    /\ lidx = 0
    /\ added_lines = <<>>
    /\ deleted_lines = <<>>
    /\ current_line_new = None
    /\ current_line_old = None
    /\ diff_dict = <<>>
    /\ result = None
    /\ error = None

\* _parse_diff_str is entered and calls _parse_source_sections, which
\* splits the text (lines 165-190).
ParseDiffStrCall ==
    /\ pc = "call"
    /\ pc' = "sections"
    /\ lines' = Split(diff_str, <<"\n">>)
    /\ UNCHANGED <<diff_str, top_level, idx, source_dict, src_path, found_hunk, sec,
                   full_src_path, lidx, added_lines, deleted_lines, current_line_new,
                   current_line_old, diff_dict, result, error>>
    /\ UNCHANGED <<agg_vars, tool_vars>>

\* One iteration of the loop of _parse_source_sections (lines 190-227).
SectionsLoop ==
    /\ pc = "sections"
    /\ idx < Len(lines)
    /\ LET st == parse_source_sections_line(
                     [source_dict |-> source_dict, src_path |-> src_path,
                      found_hunk |-> found_hunk, err |-> None], lines[idx + 1])
       IN  /\ idx' = idx + 1
           /\ source_dict' = st.source_dict
           /\ src_path' = st.src_path
           /\ found_hunk' = st.found_hunk
           /\ error' = st.err
           /\ pc' = IF st.err # None THEN "error" ELSE "sections"
    /\ UNCHANGED <<diff_str, top_level, lines, sec, full_src_path, lidx, added_lines,
                   deleted_lines, current_line_new, current_line_old, diff_dict, result>>
    /\ UNCHANGED <<agg_vars, tool_vars>>

\* _parse_source_sections returns source_dict; _parse_diff_str starts its
\* loop over sections_dict.items() (lines 229, 169).
SectionsReturn ==
    /\ pc = "sections"
    /\ idx = Len(lines)
    /\ pc' = "file"
    /\ sec' = 1
    /\ UNCHANGED <<diff_str, top_level, lines, idx, source_dict, src_path, found_hunk,
                   full_src_path, lidx, added_lines, deleted_lines, current_line_new,
                   current_line_old, diff_dict, result, error>>
    /\ UNCHANGED <<agg_vars, tool_vars>>

\* The next (src_path, diff_lines) item: the path is joined to top_level
\* and _parse_lines is entered (lines 169-173, 259-263).  os.path.join
\* raises TypeError on None.
LinesCall ==
    /\ pc = "file"
    /\ sec <= Len(source_dict)
    /\ IF top_level = None
       THEN /\ pc' = "error"
            /\ error' = Some("TypeError")
            /\ UNCHANGED <<full_src_path, lidx, added_lines, deleted_lines,
                           current_line_new, current_line_old>>
       ELSE /\ pc' = "lines"
            /\ full_src_path' = Some(OsPathJoin(top_level[1], source_dict[sec].key))
            /\ lidx' = 0
            /\ added_lines' = LinesStart.added_lines
            /\ deleted_lines' = LinesStart.deleted_lines
            /\ current_line_new' = LinesStart.current_line_new
            /\ current_line_old' = LinesStart.current_line_old
            /\ UNCHANGED error
    /\ UNCHANGED <<diff_str, top_level, lines, idx, source_dict, src_path, found_hunk,
                   sec, diff_dict, result>>
    /\ UNCHANGED <<agg_vars, tool_vars>>

\* One iteration of the loop of _parse_lines (lines 265-314).
LinesLoop ==
    /\ pc = "lines"
    /\ lidx < Len(source_dict[sec].val)
    /\ LET st == parse_lines_line(
                     [added_lines |-> added_lines, deleted_lines |-> deleted_lines,
                      current_line_new |-> current_line_new,
                      current_line_old |-> current_line_old, err |-> None],
                     source_dict[sec].val[lidx + 1])
       IN  /\ lidx' = lidx + 1
           /\ added_lines' = st.added_lines
           /\ deleted_lines' = st.deleted_lines
           /\ current_line_new' = st.current_line_new
           /\ current_line_old' = st.current_line_old
           /\ error' = st.err
           /\ pc' = IF st.err # None THEN "error" ELSE "lines"
    /\ UNCHANGED <<diff_str, top_level, lines, idx, source_dict, src_path, found_hunk,
                   sec, full_src_path, diff_dict, result>>
    /\ UNCHANGED <<agg_vars, tool_vars>>

\* _parse_lines returns (added_lines, deleted_lines), stored under the full
\* path (lines 316, 173).
LinesReturn ==
    /\ pc = "lines"
    /\ lidx = Len(source_dict[sec].val)
    /\ diff_dict' = DictSet(diff_dict, full_src_path[1],
                            [added |-> PyList(added_lines), deleted |-> PyList(deleted_lines)])
    /\ sec' = sec + 1
    /\ pc' = "file"
    /\ UNCHANGED <<diff_str, top_level, lines, idx, source_dict, src_path, found_hunk,
                   full_src_path, lidx, added_lines, deleted_lines, current_line_new,
                   current_line_old, result, error>>
    /\ UNCHANGED <<agg_vars, tool_vars>>

\* _parse_diff_str returns make_sorted_dict(diff_dict) (lines 175-176).
ParseDiffStrReturn ==
    /\ pc = "file"
    /\ sec > Len(source_dict)
    /\ result' = Some(make_sorted_dict(diff_dict))
    /\ pc' = "done"
    /\ UNCHANGED <<diff_str, top_level, lines, idx, source_dict, src_path, found_hunk,
                   sec, full_src_path, lidx, added_lines, deleted_lines,
                   current_line_new, current_line_old, diff_dict, error>>
    /\ UNCHANGED <<agg_vars, tool_vars>>

\* ------------------------------------------------------------------------
\* The working trees and the command runner
\* ------------------------------------------------------------------------

\* ciocheck.config, imported at lines 15-16
COMMITED_MODE == "commited"

STAGED_MODE == "staged"

UNSTAGED_MODE == "unstaged"

DEFAULT_BRANCH == "origin/master"

Modes == {COMMITED_MODE, STAGED_MODE, UNSTAGED_MODE}

Branches == {DEFAULT_BRANCH, "dev"}

\* The directories a DiffTool is asked about: /r is a git working tree with
\* the subdirectory /r/sub and the git directory /r/.git; /x is under no
\* version control and holds the git working tree /x/g.
P_rsub == <<"/", "r", "/", "s", "u", "b">>

P_rgit == <<"/", "r", "/", ".", "g", "i", "t">>

P_x == <<"/", "x">>

P_xg == <<"/", "x", "/", "g">>

InputPaths == {P_r, P_rsub, P_rgit, P_x, P_xg}

N_a == <<"a", ".", "p", "y">>

N_b == <<"s", "u", "b", "/", "b", ".", "p", "y">>

N_c == <<"c", ".", "p", "y">>

\* A file of /r/subx, the sibling of /r/sub.
N_d == <<"s", "u", "b", "x", "/", "d", ".", "p", "y">>

\* The tracked files, by working tree and name relative to its root.
RepoFiles ==
    {[root |-> P_r, name |-> N_a], [root |-> P_r, name |-> N_b],
     [root |-> P_r, name |-> N_d], [root |-> P_xg, name |-> N_c]}

\* The regular files on disk.
DiskFiles ==
    {<<"/", "r", "/", "a", ".", "p", "y">>,
     <<"/", "r", "/", "s", "u", "b", "/", "b", ".", "p", "y">>,
     <<"/", "r", "/", "s", "u", "b", "x", "/", "d", ".", "p", "y">>,
     <<"/", "x", "/", "n", ".", "t", "x", "t">>,
     <<"/", "x", "/", "g", "/", "c", ".", "p", "y">>}

\* The root of the working tree a directory lies in, None outside any.
WorkTreeOf(path) ==
    IF path \in {P_r, P_rsub} THEN Some(P_r)
    ELSE IF path = P_xg THEN Some(P_xg)
    ELSE None

InGitDir(path) == path = P_rgit

\* Most (mode, file) changes a world holds.
MaxChanged == 1

Worlds ==
    {w \in [Modes -> SUBSET RepoFiles] :
        Cardinality(w[COMMITED_MODE]) + Cardinality(w[STAGED_MODE])
          + Cardinality(w[UNSTAGED_MODE]) <= MaxChanged}

\* Longest list of paths a DiffTool is built from.
MaxPaths == 2

PathLists == UNION {[1..n -> InputPaths] : n \in 1..MaxPaths}

\* "{branch}...HEAD".format(branch=branch)
RangeToken(branch) ==
    CASE branch = "origin/master" -> "origin/master...HEAD"
      [] branch = "dev" -> "dev...HEAD"

RECURSIVE Concat(_)
Concat(ss) == IF ss = <<>> THEN <<>> ELSE Head(ss) \o Concat(Tail(ss))

\* What `git diff --name-only -z` prints for the names: each followed by NUL.
NameOnlyOutput(names) == Concat([i \in 1..Len(names) |-> names[i] \o <<"NUL">>])

\* What `git diff` prints for the names: per file a header and one hunk
\* that adds a line.
DiffOutput(names) ==
    Concat([i \in 1..Len(names) |->
               S_diff_git \o <<" ", "a", "/">> \o names[i] \o <<" ", "b", "/">> \o names[i]
                 \o <<"\n">> \o L_hunk_1 \o <<"\n">> \o L_line1 \o <<"\n">> \o L_line2
                 \o <<"\n">>])

NotARepository == "fatal: not a git repository"

NotAWorkTree == "fatal: this operation must be run in a work tree"

InSeq(x, q) == \E i \in 1..Len(q) : q[i] = x

\* run_command(command, cwd): git's (stdout, stderr) in the world `changed`.
run_command(command, cwd) ==
    IF command[2] = "rev-parse"
    THEN IF Len(command) = 2
         THEN IF WorkTreeOf(cwd) # None \/ InGitDir(cwd)
              THEN [output |-> <<>>, error |-> ""]
              ELSE [output |-> <<>>, error |-> NotARepository]
         ELSE IF WorkTreeOf(cwd) # None
              THEN [output |-> WorkTreeOf(cwd)[1] \o <<"\n">>
                                 \o <<"-", "-", "e", "n", "c", "o", "d", "i", "n", "g", "=", "u", "t", "f", "-", "8">>
                                 \o <<"\n">>,
                    error |-> ""]
              ELSE [output |-> <<>>,
                    error |-> IF InGitDir(cwd) THEN NotAWorkTree ELSE NotARepository]
    ELSE IF WorkTreeOf(cwd) = None
         THEN [output |-> <<>>,
               error |-> IF InGitDir(cwd) THEN NotAWorkTree ELSE NotARepository]
         ELSE LET mode == IF InSeq("--cached", command) THEN STAGED_MODE
                          ELSE IF \E b \in Branches : InSeq(RangeToken(b), command)
                               THEN COMMITED_MODE
                               ELSE UNSTAGED_MODE
                  names == SortedOfSet({f.name : f \in {g \in changed[mode] :
                                                           g.root = WorkTreeOf(cwd)[1]}})
              IN  [output |-> IF InSeq("--name-only", command)
                              THEN NameOnlyOutput(names)
                              ELSE DiffOutput(names),
                   error |-> ""]

\* get_files(paths=[path]): the regular files under the directory, sorted.
get_files(path) == SortedOfSet({f \in DiskFiles : StartsWith(f, path \o <<"/">>)})

\* ------------------------------------------------------------------------
\* The providers.  A provider is [kind, path, _top_level, _is_repo]; a call
\* on one returns [val, tool, cmds, printed, err]: the value, the provider
\* with its memo fields as the call left them, the commands run, the texts
\* printed, and the exception raised (None when none).
\* ------------------------------------------------------------------------

\* `v = e` followed by F(v): the value e is computed once.
Bind(e, F(_)) == CHOOSE x \in {F(v) : v \in {e}} : TRUE

NewTool(kind, path) == [kind |-> kind, path |-> path, _top_level |-> None, _is_repo |-> None]

Ret(val, tool, c, p) == [val |-> val, tool |-> tool, cmds |-> c, printed |-> p, err |-> None]

\* A call's result with the commands and prints of the caller so far put
\* before its own.
After(acc, r) == [r EXCEPT !.cmds = acc.cmds \o @, !.printed = acc.printed \o @]

\* GitDiffTool.is_repo()
GitDiffTool_is_repo(tool) ==
    IF tool._is_repo = None
    THEN Bind(run_command(<<"git", "rev-parse">>, tool.path), LAMBDA r :
             IF r.error # ""
             THEN Ret(FALSE, tool, <<<<"git", "rev-parse">>>>, <<r.error>>)
             ELSE Ret(~(r.error # "") /\ ~(r.output # <<>>),
                      [tool EXCEPT !._is_repo = Some(~(r.error # "") /\ ~(r.output # <<>>))],
                      <<<<"git", "rev-parse">>>>, <<>>))
    ELSE Ret(tool._is_repo[1], tool, <<>>, <<>>)

ShowToplevel == <<"git", "rev-parse", "--show-toplevel", "--encoding=utf-8">>

\* GitDiffTool.top_level: the value is Some(root), or None
GitDiffTool_top_level(tool) ==
    IF tool._top_level = None
    THEN Bind(run_command(ShowToplevel, tool.path), LAMBDA r :
             IF r.error # ""
             THEN Ret(None, tool, <<ShowToplevel>>, <<r.error>>)
             ELSE Bind(Split(r.output, <<"\n">>)[1], LAMBDA v :
                      Ret(Some(v), [tool EXCEPT !._top_level = Some(v)],
                          <<ShowToplevel>>, <<>>)))
    ELSE Ret(tool._top_level, tool, <<>>, <<>>)

\* A variant of the command in which the unstaged mode passes --cached too.
GitCommand_CachedUnlessCommited(branch, files_only, mode) ==
    <<"git", "-c", "diff.mnemonicprefix=no", "diff">>
      \o (IF mode = COMMITED_MODE THEN <<RangeToken(branch)>>
          ELSE <<"--cached">>)
      \o <<"--no-color", "--no-ext-diff", "--diff-filter=AM">>
      \o (IF files_only THEN <<"--name-only", "-z">> ELSE <<>>)

\* The command _git_run_helper builds (lines 120-142).
GitCommand(branch, files_only, mode) ==
    <<"git", "-c", "diff.mnemonicprefix=no", "diff">>
      \o (IF mode = COMMITED_MODE THEN <<RangeToken(branch)>>
          ELSE IF mode = STAGED_MODE THEN <<"--cached">>
          ELSE <<>>)
      \o <<"--no-color", "--no-ext-diff", "--diff-filter=AM">>
      \o (IF files_only THEN <<"--name-only", "-z">> ELSE <<>>)

\* [os.path.join(self.top_level, i) for i in names] (line 148): top_level is
\* read once per name; os.path.join raises TypeError on None.
RECURSIVE JoinTopLevel(_, _)
JoinTopLevel(acc, names) ==
    IF names = <<>> \/ acc.err # None THEN acc
    ELSE Bind(After(acc, GitDiffTool_top_level(acc.tool)), LAMBDA t :
             IF t.val = None
             THEN [t EXCEPT !.val = None, !.err = Some("TypeError")]
             ELSE JoinTopLevel([t EXCEPT !.val = Append(acc.val,
                                                        OsPathJoin(t.val[1], Head(names)))],
                               Tail(names)))

\* [i for i in q if i.startswith(prefix)]
RECURSIVE FilterSeq(_, _)
FilterSeq(q, prefix) ==
    IF q = <<>> THEN <<>>
    ELSE (IF StartsWith(Head(q), prefix) THEN <<Head(q)>> ELSE <<>>)
           \o FilterSeq(Tail(q), prefix)

SetOfSeq(q) == {q[i] : i \in 1..Len(q)}

\* The files_only branch of _git_run_helper after the command ran (lines
\* 145-149).
NamesOfOutput(tool, command, r) ==
    Bind(JoinTopLevel(Ret(<<>>, tool, <<command>>, <<r.error>>),
                      SortedOfSet(SetOfSeq(Split(r.output, <<"NUL">>)) \ {<<>>})),
         LAMBDA j : IF j.err # None THEN j ELSE [j EXCEPT !.val = FilterSeq(@, tool.path)])

\* GitDiffTool._git_run_helper(branch, files_only, mode)
GitDiffTool_git_run_helper(tool, branch, files_only, mode) ==
    Bind(GitCommand(branch, files_only, mode), LAMBDA command :
        Bind(run_command(command, tool.path), LAMBDA r :
            IF files_only
            THEN NamesOfOutput(tool, command, r)
            ELSE Ret(r.output, tool, <<command>>, <<>>)))

\* One item of the loop of _parse_diff_str over sections_dict.items()
\* (lines 169-173), t being the read of self.top_level.
ParseItem(acc, t, item) ==
    IF t.val = None THEN [t EXCEPT !.val = None, !.err = Some("TypeError")]
    ELSE Bind(parse_lines(item.val), LAMBDA l :
             IF l.err # None THEN [t EXCEPT !.val = None, !.err = l.err]
             ELSE [t EXCEPT !.val = DictSet(acc.val, OsPathJoin(t.val[1], item.key), l.val)])

RECURSIVE ParseItems(_, _)
ParseItems(acc, items) ==
    IF items = <<>> \/ acc.err # None THEN acc
    ELSE Bind(ParseItem(acc, After(acc, GitDiffTool_top_level(acc.tool)), Head(items)),
              LAMBDA a : ParseItems(a, Tail(items)))

\* GitDiffTool._parse_diff_str(diff_str), as one call on a provider: acc is
\* the call so far, with the provider and the commands run.
GitDiffTool_parse_diff_str(acc, text) ==
    Bind(parse_source_sections(text), LAMBDA s :
        IF s.err # None THEN [acc EXCEPT !.val = None, !.err = s.err]
        ELSE Bind(ParseItems([acc EXCEPT !.val = <<>>], s.val), LAMBDA a :
                 IF a.err # None THEN a ELSE [a EXCEPT !.val = make_sorted_dict(@)]))

\* GitDiffTool.commited_files / staged_files / unstaged_files
GitDiffTool_files(tool, branch, mode) == GitDiffTool_git_run_helper(tool, branch, TRUE, mode)

\* GitDiffTool.commited_file_lines / staged_file_lines / unstaged_file_lines
GitDiffTool_file_lines(tool, branch, mode) ==
    Bind(GitDiffTool_git_run_helper(tool, branch, FALSE, mode), LAMBDA d :
        GitDiffTool_parse_diff_str(d, d.val))

\* The stop of the range NoDiffTool pairs with [-1] (line 451).
WholeFileStop == 100000

\* NoDiffTool._get_files_helper(lines)
NoDiffTool_get_files_helper(tool, lns) ==
    Bind(get_files(tool.path), LAMBDA ps :
        IF lns
        THEN Ret([i \in 1..Len(ps) |->
                     [key |-> ps[i],
                      val |-> [added |-> PyList(<<-1>>), deleted |-> PyRange(WholeFileStop)]]],
                 tool, <<>>, <<>>)
        ELSE Ret(ps, tool, <<>>, <<>>))

\* A variant of the provider order with the no-history provider first.
TOOLS_NoHistoryFirst == <<"no", "git", "hg">>

\* DiffTool.TOOLS
TOOLS == <<"git", "hg", "no">>

\* tool.is_repo()
Tool_is_repo(tool) ==
    CASE tool.kind = "git" -> GitDiffTool_is_repo(tool)
      [] tool.kind = "hg" -> Ret(FALSE, tool, <<>>, <<>>)
      [] tool.kind = "no" -> Ret(TRUE, tool, <<>>, <<>>)

\* tool.top_level: Some(the value), or None
Tool_top_level(tool) ==
    CASE tool.kind = "git" -> GitDiffTool_top_level(tool)
      [] tool.kind = "hg" -> Ret(Some(<<>>), tool, <<>>, <<>>)
      [] tool.kind = "no" -> Ret(Some(tool.path), tool, <<>>, <<>>)

\* tool.commited_files(branch) / staged_files() / unstaged_files()
Tool_files(tool, branch, mode) ==
    CASE tool.kind = "git" -> GitDiffTool_files(tool, branch, mode)
      [] tool.kind = "hg" -> Ret(<<>>, tool, <<>>, <<>>)
      [] tool.kind = "no" -> NoDiffTool_get_files_helper(tool, FALSE)

\* tool.commited_file_lines(branch) / staged_file_lines() / unstaged_file_lines()
Tool_file_lines(tool, branch, mode) ==
    CASE tool.kind = "git" -> GitDiffTool_file_lines(tool, branch, mode)
      [] tool.kind = "hg" -> Ret(<<>>, tool, <<>>, <<>>)
      [] tool.kind = "no" -> NoDiffTool_get_files_helper(tool, TRUE)

\* ------------------------------------------------------------------------
\* DiffTool
\* ------------------------------------------------------------------------

\* __init__ after a pass of its inner loop: the dictionary, the next path
\* and provider class, and the commands and prints so far.
InitState(st, dt, nextpi, nextti, r) ==
    [diff_tools |-> dt, pi |-> nextpi, ti |-> nextti,
     cmds |-> st.cmds \o r.cmds, printed |-> st.printed \o r.printed]

\* A variant of the loop body that stores the provider of every path, so
\* that the last path of a root replaces the first.
DiffToolInitStep_LastWins(st, ps) ==
    Bind(Tool_is_repo(NewTool(TOOLS[st.ti], ps[st.pi])), LAMBDA r :
        IF r.val
        THEN Bind(After(r, Tool_top_level(r.tool)), LAMBDA t1 :
                 Bind(After(t1, Tool_top_level(t1.tool)), LAMBDA t2 :
                     InitState(st, DictSet(st.diff_tools, t2.val, t2.tool),
                               st.pi + 1, 1, t2)))
        ELSE InitState(st, st.diff_tools, st.pi, st.ti + 1, r))

\* One pass through the body of the inner loop of DiffTool.__init__ (lines
\* 509-513) for path ps[st.pi] and provider class TOOLS[st.ti].  top_level
\* is read for the membership test and again for the assignment.
DiffToolInitStep(st, ps) ==
    Bind(Tool_is_repo(NewTool(TOOLS[st.ti], ps[st.pi])), LAMBDA r :
        IF r.val
        THEN Bind(After(r, Tool_top_level(r.tool)), LAMBDA t1 :
                 IF ~DictHas(st.diff_tools, t1.val)
                 THEN Bind(After(t1, Tool_top_level(t1.tool)), LAMBDA t2 :
                          InitState(st, DictSet(st.diff_tools, t2.val, t2.tool),
                                    st.pi + 1, 1, t2))
                 ELSE InitState(st, st.diff_tools, st.pi + 1, 1, t1))
        ELSE InitState(st, st.diff_tools, st.pi, st.ti + 1, r))

DiffToolInitStart == [diff_tools |-> <<>>, pi |-> 1, ti |-> 1, cmds |-> <<>>, printed |-> <<>>]

RECURSIVE DiffToolInitRun(_, _)
DiffToolInitRun(st, ps) ==
    IF st.pi > Len(ps) THEN st
    ELSE Bind(DiffToolInitStep(st, ps), LAMBDA nx : DiffToolInitRun(nx, ps))

\* DiffTool(ps).diff_tools
DiffToolInit(ps) == DiffToolInitRun(DiffToolInitStart, ps).diff_tools

\* list(sorted(q)) for a list of strings
RECURSIVE SortedInsert(_, _)
SortedInsert(q, x) ==
    IF q = <<>> THEN <<x>>
    ELSE IF StrLess(x, Head(q)) THEN <<x>> \o q
    ELSE <<Head(q)>> \o SortedInsert(Tail(q), x)

RECURSIVE Sorted(_)
Sorted(q) == IF q = <<>> THEN <<>> ELSE SortedInsert(Sorted(Tail(q)), Head(q))

\* results.update(d)
RECURSIVE DictUpdate(_, _)
DictUpdate(results, d) ==
    IF d = <<>> THEN results
    ELSE DictUpdate(DictSet(results, Head(d).key, Head(d).val), Tail(d))

\* A query after the call r on provider i: acc is [val, tools, cmds,
\* printed, err], tools being self.diff_tools with the providers as their
\* calls left them.
QueryAfter(acc, i, lns, r) ==
    [val |-> IF r.err # None THEN None
             ELSE IF lns THEN DictUpdate(acc.val, r.val)
             ELSE acc.val \o r.val,
     tools |-> [acc.tools EXCEPT ![i].val = r.tool],
     cmds |-> acc.cmds \o r.cmds,
     printed |-> acc.printed \o r.printed,
     err |-> r.err]

\* The loop `for diff_tool in self.diff_tools.values()` of a query, from
\* provider i on.
RECURSIVE QueryLoop(_, _, _, _, _)
QueryLoop(acc, i, lns, branch, mode) ==
    IF i > Len(acc.tools) \/ acc.err # None THEN acc
    ELSE Bind(QueryAfter(acc, i, lns,
                         IF lns THEN Tool_file_lines(acc.tools[i].val, branch, mode)
                         ELSE Tool_files(acc.tools[i].val, branch, mode)),
              LAMBDA a : QueryLoop(a, i + 1, lns, branch, mode))

QueryStart(dt) == [val |-> <<>>, tools |-> dt, cmds |-> <<>>, printed |-> <<>>, err |-> None]

\* DiffTool.commited_files / staged_files / unstaged_files
DiffTool_files(dt, branch, mode) ==
    Bind(QueryLoop(QueryStart(dt), 1, FALSE, branch, mode), LAMBDA a :
        IF a.err # None THEN a ELSE [a EXCEPT !.val = Sorted(@)])

\* DiffTool.commited_file_lines / staged_file_lines / unstaged_file_lines
DiffTool_file_lines(dt, branch, mode) ==
    Bind(QueryLoop(QueryStart(dt), 1, TRUE, branch, mode), LAMBDA a :
        IF a.err # None THEN a ELSE [a EXCEPT !.val = make_sorted_dict(@)])

\* ------------------------------------------------------------------------
\* The DiffTool, one step per inner-loop pass of __init__ and per query
\* ------------------------------------------------------------------------

AggIdle ==
    /\ changed = [m \in Modes |-> {}]
    /\ paths = <<>>
    /\ diff_tools = <<>>
    /\ apc = "idle"
    /\ pi = 0
    /\ ti = 0
    /\ op = "none"
    /\ ret = None
    /\ exc = None
    /\ cmds = <<>>
    /\ printed = <<>>

ParserIdle ==
    /\ diff_str = <<>>
    /\ top_level = None
    /\ pc = "idle"
    /\ lines = <<>>
    /\ idx = 0
    /\ source_dict = <<>>
    /\ src_path = None
    /\ found_hunk = FALSE
    /\ sec = 0
    /\ full_src_path = None
    /\ lidx = 0
    /\ added_lines = <<>>
    /\ deleted_lines = <<>>
    /\ current_line_new = None
    /\ current_line_old = None
    /\ diff_dict = <<>>
    /\ result = None
    /\ error = None

\* DiffTool(paths) is entered (lines 504-505).
AggInit ==
    /\ changed \in Worlds
    /\ paths \in PathLists
    /\ diff_tools = DiffToolInitStart.diff_tools
    /\ apc = "init"
    /\ pi = DiffToolInitStart.pi
    /\ ti = DiffToolInitStart.ti
    /\ op = "__init__"
    /\ ret = None
    /\ exc = None
    /\ cmds = DiffToolInitStart.cmds
    /\ printed = DiffToolInitStart.printed

\* One pass of the inner loop of __init__; after the last path __init__
\* returns.
DiffToolInitLoop ==
    /\ apc = "init"
    /\ pi <= Len(paths)
    /\ LET st == DiffToolInitStep([diff_tools |-> diff_tools, pi |-> pi, ti |-> ti,
                                   cmds |-> cmds, printed |-> printed], paths)
       IN  /\ diff_tools' = st.diff_tools
           /\ pi' = st.pi
           /\ ti' = st.ti
           /\ cmds' = st.cmds
           /\ printed' = st.printed
           /\ apc' = IF st.pi > Len(paths) THEN "ready" ELSE "init"
    /\ UNCHANGED <<changed, paths, op, ret, exc>>
    /\ UNCHANGED <<parser_vars, tool_vars>>

\* A query returns r, or raises.
Returns(name, r) ==
    /\ apc = "ready"
    /\ op' = name
    /\ ret' = IF r.err # None THEN None ELSE Some(r.val)
    /\ exc' = r.err
    /\ cmds' = r.cmds
    /\ printed' = r.printed
    /\ diff_tools' = r.tools
    /\ UNCHANGED <<changed, paths, apc, pi, ti>>
    /\ UNCHANGED <<parser_vars, tool_vars>>

CommitedFiles ==
    \E branch \in Branches :
        Returns("commited_files", DiffTool_files(diff_tools, branch, COMMITED_MODE))

StagedFiles == Returns("staged_files", DiffTool_files(diff_tools, DEFAULT_BRANCH, STAGED_MODE))

UnstagedFiles ==
    Returns("unstaged_files", DiffTool_files(diff_tools, DEFAULT_BRANCH, UNSTAGED_MODE))

CommitedFileLines ==
    \E branch \in Branches :
        Returns("commited_file_lines", DiffTool_file_lines(diff_tools, branch, COMMITED_MODE))

StagedFileLines ==
    Returns("staged_file_lines", DiffTool_file_lines(diff_tools, DEFAULT_BRANCH, STAGED_MODE))

UnstagedFileLines ==
    Returns("unstaged_file_lines",
            DiffTool_file_lines(diff_tools, DEFAULT_BRANCH, UNSTAGED_MODE))

\* ------------------------------------------------------------------------
\* A GitDiffTool instance called on its own
\* ------------------------------------------------------------------------

ToolIdle ==
    /\ provider = None
    /\ targs = <<>>
    /\ is_repo_log = <<>>

\* Most is_repo() calls made on the instance.
MaxCalls == 3

\* GitDiffTool(path) in some world; no method has been called.
ToolInit ==
    /\ changed \in Worlds
    /\ provider \in {NewTool("git", path) : path \in InputPaths}
    /\ targs = <<>>
    /\ is_repo_log = <<>>
    /\ paths = <<>>
    /\ diff_tools = <<>>
    /\ apc = "tool"
    /\ pi = 0
    /\ ti = 0
    /\ op = "__init__"
    /\ ret = None
    /\ exc = None
    /\ cmds = <<>>
    /\ printed = <<>>

\* A method of the instance returns r, or raises.
ToolReturns(name, args, r) ==
    /\ apc = "tool"
    /\ op' = name
    /\ targs' = args
    /\ ret' = IF r.err # None THEN None ELSE Some(r.val)
    /\ exc' = r.err
    /\ cmds' = r.cmds
    /\ printed' = r.printed
    /\ provider' = r.tool
    /\ UNCHANGED <<changed, paths, diff_tools, apc, pi, ti>>
    /\ UNCHANGED parser_vars

ToolIsRepo ==
    /\ Len(is_repo_log) < MaxCalls
    /\ ToolReturns("is_repo", <<>>, GitDiffTool_is_repo(provider))
    /\ is_repo_log' = Append(is_repo_log,
                             [verdict |-> GitDiffTool_is_repo(provider).val,
                              cmds |-> GitDiffTool_is_repo(provider).cmds])

ToolTopLevel ==
    /\ ToolReturns("top_level", <<>>, GitDiffTool_top_level(provider))
    /\ UNCHANGED is_repo_log

ToolCommitedFiles ==
    /\ \E branch \in Branches :
           ToolReturns("commited_files", <<branch>>,
                       GitDiffTool_files(provider, branch, COMMITED_MODE))
    /\ UNCHANGED is_repo_log

ToolStagedFiles ==
    /\ ToolReturns("staged_files", <<>>,
                   GitDiffTool_files(provider, DEFAULT_BRANCH, STAGED_MODE))
    /\ UNCHANGED is_repo_log

ToolUnstagedFiles ==
    /\ ToolReturns("unstaged_files", <<>>,
                   GitDiffTool_files(provider, DEFAULT_BRANCH, UNSTAGED_MODE))
    /\ UNCHANGED is_repo_log

ToolCommitedFileLines ==
    /\ \E branch \in Branches :
           ToolReturns("commited_file_lines", <<branch>>,
                       GitDiffTool_file_lines(provider, branch, COMMITED_MODE))
    /\ UNCHANGED is_repo_log

ToolStagedFileLines ==
    /\ ToolReturns("staged_file_lines", <<>>,
                   GitDiffTool_file_lines(provider, DEFAULT_BRANCH, STAGED_MODE))
    /\ UNCHANGED is_repo_log

ToolUnstagedFileLines ==
    /\ ToolReturns("unstaged_file_lines", <<>>,
                   GitDiffTool_file_lines(provider, DEFAULT_BRANCH, UNSTAGED_MODE))
    /\ UNCHANGED is_repo_log

\* ------------------------------------------------------------------------
\* Specifications: the parser on a diff text, the DiffTool on a world, and
\* one GitDiffTool on a world
\* ------------------------------------------------------------------------

Init == ParserInit /\ AggIdle /\ ToolIdle

Next ==
    \/ ParseDiffStrCall
    \/ SectionsLoop
    \/ SectionsReturn
    \/ LinesCall
    \/ LinesLoop
    \/ LinesReturn
    \/ ParseDiffStrReturn

Spec == Init /\ [][Next]_vars

InitAgg == AggInit /\ ParserIdle /\ ToolIdle

NextAgg ==
    \/ DiffToolInitLoop
    \/ CommitedFiles
    \/ StagedFiles
    \/ UnstagedFiles
    \/ CommitedFileLines
    \/ StagedFileLines
    \/ UnstagedFileLines

SpecAgg == InitAgg /\ [][NextAgg]_vars

InitTool == ToolInit /\ ParserIdle

NextTool ==
    \/ ToolIsRepo
    \/ ToolTopLevel
    \/ ToolCommitedFiles
    \/ ToolStagedFiles
    \/ ToolUnstagedFiles
    \/ ToolCommitedFileLines
    \/ ToolStagedFileLines
    \/ ToolUnstagedFileLines

SpecTool == InitTool /\ [][NextTool]_vars

\* ------------------------------------------------------------------------
\* Properties of the parser (specification Spec)
\* ------------------------------------------------------------------------

\* The specification's concrete diff text, bare and newline-terminated.
ConcreteTexts == {JoinLines(ScenarioLines), JoinLines(ScenarioLines) \o <<"\n">>}

TwoHunkTexts == {JoinLines(TwoHunkLines), JoinLines(TwoHunkLines) \o <<"\n">>}

P_r_foo == <<"/", "r", "/", "f", "o", "o", ".", "p", "y">>

P_r_bar == <<"/", "r", "/", "b", "a", "r", ".", "p", "y">>

LineChangeSet(a, d) == [added |-> PyList(a), deleted |-> PyList(d)]

\* C1, as stated: parsing the concrete diff text yields exactly one entry,
\* for foo.py under the root, with added = [2] and deleted = [4].
C1_ConcreteAsStated ==
    pc = "done" /\ diff_str \in ConcreteTexts
        => result = Some(<<[key |-> P_r_foo, val |-> LineChangeSet(<<2>>, <<4>>)]>>)

\* C1, amended: parsing the concrete diff text succeeds and yields exactly
\* one entry, for foo.py under the root, with added = [2] and deleted = [3]
\* (line4 is the third line of the old file).
C1_ConcreteAmended ==
    diff_str \in ConcreteTexts
        => /\ pc # "error"
           /\ pc = "done"
                => result = Some(<<[key |-> P_r_foo, val |-> LineChangeSet(<<2>>, <<3>>)]>>)

C1_Witness == pc = "done" /\ diff_str \in ConcreteTexts /\ result # None

StrictlyIncreasing(q) == \A i \in 1..(Len(q) - 1) : q[i] < q[i + 1]

\* C2: in every result of a parse, the added sequence and the deleted
\* sequence of every file are strictly increasing.
C2_Monotonic ==
    pc = "done"
        => \A i \in 1..Len(result[1]) :
               /\ StrictlyIncreasing(result[1][i].val.added.args)
               /\ StrictlyIncreasing(result[1][i].val.deleted.args)

IsHeaderLine(l) == StartsWith(l, S_diff_git) \/ StartsWith(l, S_diff_cc)

IsHunkLine(l) == StartsWith(l, S_atat)

\* The path each header line of the model's texts names, under the root.
HeaderFullPath(l) == IF l = L_header_foo THEN P_r_foo ELSE P_r_bar

\* The section that header line i of ls starts has no hunk marker before
\* the next header or the end of the text.
NoHunkSection(ls, i) ==
    /\ IsHeaderLine(ls[i])
    /\ \A j \in (i + 1)..Len(ls) :
           IsHunkLine(ls[j]) => \E k \in (i + 1)..j : IsHeaderLine(ls[k])

\* C8, as stated: a section with a file header and no hunk marker yields
\* added = [] and deleted = [] for its path, and the path is a key.
C8_NoHunkAsStated ==
    pc = "done"
        => \A i \in 1..Len(lines) :
               NoHunkSection(lines, i)
                   => /\ DictHas(result[1], HeaderFullPath(lines[i]))
                      /\ DictGet(result[1], HeaderFullPath(lines[i]))
                           = LineChangeSet(<<>>, <<>>)

\* C8, amended: the path of a section with a file header and no hunk marker
\* is a key of the result, and its value is added = [], deleted = [] when
\* no other section of the text names the same path with a hunk marker
\* (the sections of one path are parsed as one).
C8_NoHunkAmended ==
    pc = "done"
        => \A i \in 1..Len(lines) :
               NoHunkSection(lines, i)
                   => /\ DictHas(result[1], HeaderFullPath(lines[i]))
                      /\ (\A j \in 1..Len(lines) :
                              IsHeaderLine(lines[j])
                                /\ HeaderFullPath(lines[j]) = HeaderFullPath(lines[i])
                                  => NoHunkSection(lines, j))
                           => DictGet(result[1], HeaderFullPath(lines[i]))
                                = LineChangeSet(<<>>, <<>>)

\* A parse of two files: bar.py with no hunk, foo.py with an added line.
C8_Witness ==
    /\ pc = "done"
    /\ \E i \in 1..Len(lines) : NoHunkSection(lines, i) /\ lines[i] = L_header_bar
    /\ DictHas(result[1], P_r_bar)
    /\ DictHas(result[1], P_r_foo)
    /\ DictGet(result[1], P_r_foo).added.args # <<>>

\* The position of the first line of ls that P holds of, Len(ls) + 1 when none.
FirstLine(ls, P(_)) ==
    IF \E i \in 1..Len(ls) : P(ls[i])
    THEN CHOOSE i \in 1..Len(ls) : P(ls[i]) /\ \A j \in 1..(i - 1) : ~P(ls[j])
    ELSE Len(ls) + 1

\* C9: when a line starting with @@ comes before the first file header, the
\* parse raises at that line ("Hunk has no source file") and returns
\* nothing; the other lines before the first header raise nothing and leave
\* the sections empty.
C9_HunkBeforeHeaderRejected ==
    pc \notin {"call", "idle"}
        => LET h == FirstLine(lines, IsHeaderLine)
               k == FirstLine(lines, IsHunkLine)
           IN  /\ k < h
                    => /\ pc \in {"sections", "error"}
                       /\ result = None
                       /\ pc = "sections" => idx < k /\ error = None
                       /\ pc = "error"
                            => idx = k /\ error = Some("Hunk has no source file")
               /\ idx < h /\ idx < k => pc # "error" /\ source_dict = <<>>

\* The parse has raised at a hunk marker that follows a tolerated line.
C9_Witness ==
    /\ pc = "error"
    /\ error = Some("Hunk has no source file")
    /\ idx >= 2
    /\ ~IsHunkLine(lines[1])

\* The new_start each hunk marker of the model's texts carries.
\* (for a generated marker, the line its new side was printed from).
KnownStart(l) ==
    CASE l = L_hunk_1 -> 1 [] l = L_hunk_11 -> 11 [] l = L_hunk_1_6 -> 1 [] l = L_hunk_8_4 -> 4
      [] l = L_hunk_excerpt -> 7 [] l = L_hunk_open -> 5
      [] OTHER ->
           CHOOSE v \in 0..11 :
               \E b \in Bodies \cup {<<" ", "+">>} : \E n \in {1, 11} :
                   /\ l = MarkerOf(n - (n \div 11), n, b)
                   /\ v = IF CountKinds(b, Len(b), {" ", "+"}) = 0 THEN n - 1 ELSE n

\* How many of the first n lines of ls start with character c.
CountStarting(ls, n, c) == Cardinality({i \in 1..n : StartsWith(ls[i], <<c>>)})

\* C10: a hunk marker sets both counters to its new_start whatever they
\* were; the added and removed lines of all hunks of a file accumulate in
\* the same two sequences; the two-hunk text yields added = [1, 11].
C10_MultiHunk ==
    /\ pc = "lines" /\ lidx > 0 /\ IsHunkLine(source_dict[sec].val[lidx])
         => /\ current_line_new = Some(KnownStart(source_dict[sec].val[lidx]))
            /\ current_line_old = Some(KnownStart(source_dict[sec].val[lidx]))
    /\ pc = "lines"
         => /\ Len(added_lines) = CountStarting(source_dict[sec].val, lidx, "+")
            /\ Len(deleted_lines) = CountStarting(source_dict[sec].val, lidx, "-")
    /\ pc = "done" /\ diff_str \in TwoHunkTexts
         => result = Some(<<[key |-> P_r_foo, val |-> LineChangeSet(<<1, 11>>, <<>>)]>>)

\* The second marker of the two-hunk text has just reset the counter that
\* the first hunk left at 2.
C10_Witness ==
    /\ pc = "lines"
    /\ diff_str \in TwoHunkTexts
    /\ lidx = 3
    /\ added_lines = <<1>>
    /\ current_line_new = Some(11)

\* ------------------------------------------------------------------------
\* Properties of the providers and the DiffTool (specification SpecAgg)
\* ------------------------------------------------------------------------

\* C3: for every Git provider and mode, the paths of the file-only query
\* are the keys of the line-level query.
C3_NameOnlyConsistent ==
    apc = "ready"
        => \A i \in 1..Len(diff_tools) : \A m \in Modes :
               diff_tools[i].val.kind = "git"
                   => LET f == GitDiffTool_files(diff_tools[i].val, DEFAULT_BRANCH, m)
                          l == GitDiffTool_file_lines(diff_tools[i].val, DEFAULT_BRANCH, m)
                      IN  f.err = None /\ l.err = None
                              => SetOfSeq(f.val) = DictKeys(l.val)

Bijections(S) == {f \in [S -> S] : \A a, b \in S : f[a] = f[b] => a = b}

\* The orderings of a list.
Orderings(ps) == {[i \in 1..Len(ps) |-> ps[f[i]]] : f \in Bijections(1..Len(ps))}

NonDecreasing(q) == \A i \in 1..(Len(q) - 1) : ~StrLess(q[i + 1], q[i])

KeysIncreasing(d) == \A i \in 1..(Len(d) - 1) : StrLess(d[i].key, d[i + 1].key)

\* C4: a DiffTool whose paths resolve to two distinct roots returns, from
\* each of the six queries, a path-sorted result that is the same for every
\* ordering of the path list.
C4_OrderIndependent ==
    apc = "ready" /\ Cardinality(DictKeys(diff_tools)) = 2 /\ ~DictHas(diff_tools, None)
        => \A m \in Modes :
               LET f == DiffTool_files(diff_tools, DEFAULT_BRANCH, m)
                   l == DiffTool_file_lines(diff_tools, DEFAULT_BRANCH, m)
               IN  /\ f.err = None /\ NonDecreasing(f.val)
                   /\ l.err = None /\ KeysIncreasing(l.val)
                   /\ \A q \in Orderings(paths) :
                          /\ DiffTool_files(DiffToolInit(q), DEFAULT_BRANCH, m).val = f.val
                          /\ DiffTool_file_lines(DiffToolInit(q), DEFAULT_BRANCH, m).val = l.val

LineOps == {"commited_file_lines", "staged_file_lines", "unstaged_file_lines"}

ModeOf(o) ==
    CASE o \in {"commited_files", "commited_file_lines"} -> COMMITED_MODE
      [] o \in {"staged_files", "staged_file_lines"} -> STAGED_MODE
      [] o \in {"unstaged_files", "unstaged_file_lines"} -> UNSTAGED_MODE

\* The line-level results of the providers, in the order of diff_tools.
ProviderLines(m) ==
    [i \in 1..Len(diff_tools) |-> Tool_file_lines(diff_tools[i].val, DEFAULT_BRANCH, m).val]

\* C5: in the merged line-level result, the value of a path is the one of
\* the earliest provider that reports the path.
C5_NoOverwrite ==
    apc = "ready" /\ op \in LineOps /\ exc = None
        => LET pl == ProviderLines(ModeOf(op))
           IN  \A k \in DictKeys(ret[1]) :
                   LET first == CHOOSE i \in 1..Len(pl) :
                                    /\ DictHas(pl[i], k)
                                    /\ \A j \in 1..(i - 1) : ~DictHas(pl[j], k)
                   IN  DictGet(ret[1], k) = DictGet(pl[first], k)

\* C6: no provider is stored under an unresolved (None) root; a path whose
\* Git root cannot be resolved gets the no-history provider.
C6_UnresolvedFallsThrough ==
    \A i \in 1..Len(diff_tools) :
        /\ diff_tools[i].key # None
        /\ diff_tools[i].val.kind = "git" => diff_tools[i].val._top_level # None

\* A directory under no version control.
NotUnderVCS(path) == WorkTreeOf(path) = None /\ ~InGitDir(path)

\* The files under /x, sorted.
FilesUnderX ==
    <<<<"/", "x", "/", "g", "/", "c", ".", "p", "y">>, <<"/", "x", "/", "n", ".", "t", "x", "t">>>>

\* C7: __init__ tries Git, then Hg, then the no-history provider, and keeps
\* the first that is a repository; a path under no version control gets
\* the no-history provider, keyed by the path, whose line-level queries map
\* every file found to ([-1], range(100000)).
C7_FallbackOrdering ==
    /\ apc = "init" /\ pi <= Len(paths)
         => /\ ti \in 1..3
            /\ ti > 1 => NotUnderVCS(paths[pi])
    /\ \A i \in 1..Len(diff_tools) :
           LET t == diff_tools[i].val
           IN  /\ t.kind = (IF NotUnderVCS(t.path) THEN "no" ELSE "git")
               /\ t.kind = "no"
                    => /\ diff_tools[i].key = Some(t.path)
                       /\ t.path = P_x
                       /\ \A m \in Modes :
                              Tool_file_lines(t, DEFAULT_BRANCH, m).val
                                = [j \in 1..2 |->
                                      [key |-> FilesUnderX[j],
                                       val |-> [added |-> PyList(<<-1>>),
                                                deleted |-> PyRange(100000)]]]
    /\ apc = "ready"
         => \A j \in 1..Len(paths) :
                NotUnderVCS(paths[j])
                    => /\ DictHas(diff_tools, Some(paths[j]))
                       /\ DictGet(diff_tools, Some(paths[j])).kind = "no"

\* A DiffTool built on /x alone has answered a line-level query with the
\* two files under /x.
C7_Witness ==
    /\ apc = "ready"
    /\ paths = <<P_x>>
    /\ op = "unstaged_file_lines"
    /\ ret # None
    /\ Len(ret[1]) = 2
    /\ diff_tools[1].val.kind = "no"

\* ------------------------------------------------------------------------
\* Line positions in generated hunks (specification Spec)
\* ------------------------------------------------------------------------

\* The positions of the lines of kind k of body b in the file that holds
\* them, the body beginning at line start of that file: a line's position is
\* start plus the number of context lines and lines of kind k before it.
PositionsOf(b, start, k) ==
    LET at == SelectSeq([i \in 1..Len(b) |-> i], LAMBDA i : b[i] = k)
    IN  [j \in 1..Len(at) |-> start + CountKinds(b, at[j] - 1, {" ", k})]

HasNoNewline(b) == \E i \in 1..Len(b) : b[i] = "\\"

\* The no-newline marker stands between a removed and an added line.
NoNewlineBetween(b) ==
    \E i \in 2..(Len(b) - 1) : b[i] = "\\" /\ b[i - 1] = "-" /\ b[i + 1] = "+"

OnlyFoo(v) == Some(<<[key |-> P_r_foo, val |-> v]>>)

\* C11: for every hunk of a well-formed diff, the numbers recorded in
\* deleted are the positions of the removed lines in the old file
\* (old_start plus the context and removed lines before them) and the
\* numbers recorded in added are the positions in the new file.
C11_TruePositions ==
    pc = "done"
        => \A b \in Bodies :
               ~HasNoNewline(b)
                   => /\ diff_str = JoinLines(FirstHunkLines(b))
                           => result = OnlyFoo(LineChangeSet(PositionsOf(b, 1, "+"),
                                                             PositionsOf(b, 1, "-")))
                      /\ diff_str = JoinLines(SecondHunkLines(b))
                           => result = OnlyFoo(LineChangeSet(<<2>> \o PositionsOf(b, 11, "+"),
                                                             PositionsOf(b, 10, "-")))

\* C19: in a well-formed hunk where the no-newline marker stands between
\* removed and added lines, every number recorded in added is the position
\* of the added line in the new file (the marker advances no counter).
C19_NoNewlineKeepsPositions ==
    pc = "done"
        => \A b \in Bodies :
               NoNewlineBetween(b)
                   => /\ diff_str = JoinLines(FirstHunkLines(b))
                           => result[1][1].val.added = PyList(PositionsOf(b, 1, "+"))
                      /\ diff_str = JoinLines(SecondHunkLines(b))
                           => result[1][1].val.added = PyList(<<2>> \o PositionsOf(b, 11, "+"))

\* The start a hunk-like line carries when the text between its first two
\* @@ (to the end of the line when there is one @@) holds exactly one '+'
\* followed by digits; None when it is a parse error.
ProbeStart(h) ==
    CASE h = L_hunk_1 -> Some(1) [] h = L_hunk_11 -> Some(11)
      [] h = L_hunk_excerpt -> Some(7) [] h = L_hunk_open -> Some(5)
      [] h \in {L_hunk_noplus, L_hunk_twoplus, L_hunk_nodigits, L_hunk_bare, L_hunk_late} -> None

HunkErrors ==
    {Some("Could not parse as a line number"), Some("Could not find start of hunk in line"),
     Some("Could not parse hunk in line")}

\* The parse of a text whose k-th retained line of foo.py is the hunk-like
\* line h, the retained lines before it being well-formed and adding the
\* lines before: it raises at h when h is malformed, and otherwise returns
\* before followed by the start of h for the one added line after h.
ProbeOutcome(h, k, before) ==
    IF ProbeStart(h) = None
    THEN /\ pc # "done"
         /\ result = None
         /\ pc = "lines" => lidx < k
         /\ pc = "error" => error \in HunkErrors /\ lidx = k
    ELSE /\ pc # "error"
         /\ pc = "done"
              => result = OnlyFoo(LineChangeSet(before \o <<ProbeStart(h)[1]>>, <<>>))

\* C20: a hunk marker is a parse error, the parse yielding nothing, exactly
\* when the text between its first two @@ does not hold exactly one '+'
\* group or the group has no digits; otherwise the hunk starts at the
\* integer after the '+', and the marker is not recorded as an added line.
C20_HunkMarkerErrors ==
    \A h \in HunkProbes :
        /\ diff_str = JoinLines(<<L_header_foo, h, L_line2>>) => ProbeOutcome(h, 1, <<>>)
        /\ diff_str = JoinLines(<<L_header_foo, L_hunk_1, L_line2, h, L_line2>>)
             => ProbeOutcome(h, 3, <<1>>)

\* The parse has raised at a second marker with two '+' groups.
C20_Witness ==
    /\ pc = "error"
    /\ diff_str = JoinLines(<<L_header_foo, L_hunk_1, L_line2, L_hunk_twoplus, L_line2>>)
    /\ error = Some("Could not find start of hunk in line")
    /\ added_lines = <<1>>

\* ------------------------------------------------------------------------
\* Pass 1 (specification Spec)
\* ------------------------------------------------------------------------

\* The position of the file header line i of ls stands under, 0 when none.
HeaderOf(ls, i) ==
    IF \E j \in 1..i : IsHeaderLine(ls[j])
    THEN CHOOSE j \in 1..i : IsHeaderLine(ls[j]) /\ \A k \in (j + 1)..i : ~IsHeaderLine(ls[k])
    ELSE 0

\* The path, relative to the root, each header line of the texts names.
HeaderPath(l) == IF l = L_header_foo THEN P_foo ELSE P_bar

\* A hunk marker stands after the header of line i, at or before line i.
HunkSeen(ls, i) == \E j \in (HeaderOf(ls, i) + 1)..i : IsHunkLine(ls[j])

\* The lines of the first n lines of ls that pass 1 is to retain for path p:
\* those of the sections of p from the section's first hunk marker on.
RetainedFor(ls, n, p) ==
    LET at == SelectSeq([i \in 1..n |-> i],
                        LAMBDA i : /\ ~IsHeaderLine(ls[i])
                                   /\ HeaderOf(ls, i) > 0
                                   /\ HeaderPath(ls[HeaderOf(ls, i)]) = p
                                   /\ HunkSeen(ls, i))
    IN  [j \in 1..Len(at) |-> ls[at[j]]]

SectionsAsRetained(n) ==
    /\ DictKeys(source_dict) = {HeaderPath(lines[i]) : i \in {j \in 1..n : IsHeaderLine(lines[j])}}
    /\ \A p \in DictKeys(source_dict) : DictGet(source_dict, p) = RetainedFor(lines, n, p)

\* C18: in pass 1 every line of a section before its first hunk marker is
\* discarded (the '---' and '+++' lines add nothing to deleted or added);
\* from the marker on every line, blank lines too, is retained in order
\* until the next file header, which resets the found-hunk state.
C18_Sectioning ==
    /\ pc = "sections"
         => /\ SectionsAsRetained(idx)
            /\ found_hunk = (idx > 0 /\ HunkSeen(lines, idx))
    /\ pc \in {"file", "lines", "done"} => SectionsAsRetained(Len(lines))
    /\ pc = "done" /\ diff_str = JoinLines(BlankLinesLines)
         => result = Some(<<[key |-> P_r_bar, val |-> LineChangeSet(<<12>>, <<>>)],
                            [key |-> P_r_foo, val |-> LineChangeSet(<<1>>, <<2>>)]>>)

\* Pass 1 is over for the text with blank lines: foo.py keeps its hunk with
\* both blank lines, bar.py the hunk of its second section.
C18_Witness ==
    /\ pc = "file"
    /\ diff_str = JoinLines(BlankLinesLines)
    /\ DictGet(source_dict, P_foo) = <<L_hunk_1, L_line2, <<>>, L_line4, <<>>>>
    /\ DictGet(source_dict, P_bar) = <<L_hunk_11, <<>>, L_line2>>

\* ------------------------------------------------------------------------
\* The Git provider's queries (specification SpecAgg)
\* ------------------------------------------------------------------------

\* p is the directory scope or lies under it.
Under(p, scope) == p = scope \/ StartsWith(p, scope \o <<"/">>)

\* C12: the list a Git provider's file-only query returns is sorted, has no
\* entry made from an empty name, and holds only paths under the scope
\* path, never a file of a sibling directory whose name begins with the
\* scope path's text.
C12_FilesUnderScope ==
    apc = "ready"
        => \A i \in 1..Len(diff_tools) : \A m \in Modes :
               diff_tools[i].val.kind = "git"
                   => LET f == GitDiffTool_files(diff_tools[i].val, DEFAULT_BRANCH, m)
                      IN  f.err = None
                              => /\ NonDecreasing(f.val)
                                 /\ \A j \in 1..Len(f.val) :
                                        /\ f.val[j] \notin {<<>>, P_r \o <<"/">>, P_xg \o <<"/">>}
                                        /\ Under(f.val[j], diff_tools[i].val.path)

\* ------------------------------------------------------------------------
\* One Git provider (specification SpecTool)
\* ------------------------------------------------------------------------

FileOps == {"commited_files", "staged_files", "unstaged_files"}

QueryOps == FileOps \cup LineOps

\* A query has been called on the instance.
Queried == apc = "tool" /\ op \in QueryOps

\* C13: when the diff command of a Git provider query, file-only or
\* line-level, in any mode, returns error text, the text is printed and the
\* query does not raise.
C13_ErrorSurfaced ==
    Queried
        => LET e == run_command(cmds[1], provider.path).error
           IN  e # "" => exc = None /\ InSeq(e, printed)

\* C14: the diff command holds 'branch...HEAD' exactly in the committed
\* mode, '--cached' exactly in the staged mode, neither in the unstaged
\* mode, always '--no-color', '--no-ext-diff' and '--diff-filter=AM', and
\* '--name-only' and '-z' exactly for a file-only query.
C14_Command ==
    Queried
        => /\ cmds # <<>>
           /\ SubSeq(cmds[1], 1, 4) = <<"git", "-c", "diff.mnemonicprefix=no", "diff">>
           /\ InSeq("origin/master...HEAD", cmds[1])
                <=> (ModeOf(op) = "commited" /\ targs = <<"origin/master">>)
           /\ InSeq("dev...HEAD", cmds[1]) <=> (ModeOf(op) = "commited" /\ targs = <<"dev">>)
           /\ InSeq("--cached", cmds[1]) <=> ModeOf(op) = "staged"
           /\ InSeq("--no-color", cmds[1])
           /\ InSeq("--no-ext-diff", cmds[1])
           /\ InSeq("--diff-filter=AM", cmds[1])
           /\ InSeq("--name-only", cmds[1]) <=> op \in FileOps
           /\ InSeq("-z", cmds[1]) <=> op \in FileOps

\* commited_files('dev') has run its command.
C14_Witness ==
    /\ Queried
    /\ op = "commited_files"
    /\ targs = <<"dev">>
    /\ cmds[1] = <<"git", "-c", "diff.mnemonicprefix=no", "diff", "dev...HEAD", "--no-color",
                   "--no-ext-diff", "--diff-filter=AM", "--name-only", "-z">>

\* C16: of the is_repo() calls on one instance only the first runs the
\* probe command; every later call returns the first verdict, positive or
\* negative, and runs no command.
C16_IsRepoMemoized ==
    \A i \in 2..Len(is_repo_log) :
        /\ is_repo_log[i].cmds = <<>>
        /\ is_repo_log[i].verdict = is_repo_log[1].verdict

\* C17: each query of a Git provider runs exactly one external command,
\* whatever the state of the memoized top_level.
C17_OneCommand == Queried => Len(cmds) = 1

\* ------------------------------------------------------------------------
\* Deduplication (specification SpecAgg)
\* ------------------------------------------------------------------------

\* The root each input directory resolves to: the top of its working tree,
\* the directory itself under no version control, None in a git directory.
ResolvedRoot(path) ==
    CASE path \in {P_r, P_rsub} -> Some(P_r)
      [] path = P_xg -> Some(P_xg)
      [] path = P_x -> Some(P_x)
      [] path = P_rgit -> None

\* C15: the DiffTool holds at most one provider per top_level, the one made
\* for the first input path that resolves to it; paths of one working tree
\* share it.
C15_Deduplicated ==
    /\ \A i, j \in 1..Len(diff_tools) : diff_tools[i].key = diff_tools[j].key => i = j
    /\ \A i \in 1..Len(diff_tools) :
           \E j \in 1..Len(paths) :
               /\ ResolvedRoot(paths[j]) = diff_tools[i].key
               /\ \A k \in 1..(j - 1) : ResolvedRoot(paths[k]) # diff_tools[i].key
               /\ diff_tools[i].val.path = paths[j]
    /\ apc = "ready"
         => DictKeys(diff_tools) = {ResolvedRoot(paths[j]) : j \in 1..Len(paths)}

\* /r/sub then /r: one provider, the one made for /r/sub.
C15_Witness ==
    /\ apc = "ready"
    /\ paths = <<P_rsub, P_r>>
    /\ Len(diff_tools) = 1
    /\ diff_tools[1].key = Some(P_r)
    /\ diff_tools[1].val.path = P_rsub

\* ------------------------------------------------------------------------
\* Coverage of the input paths (specification SpecAgg)
\* ------------------------------------------------------------------------

\* C21: every added or modified file that lies under one of the input paths
\* of a DiffTool is in the result of the *_files query of its mode, also
\* when several input paths lie in the same working tree.
C21_EveryPathCovered ==
    apc = "ready"
        => \A m \in Modes : \A f \in changed[m] :
               (\E j \in 1..Len(paths) : Under(f.root \o <<"/">> \o f.name, paths[j]))
                   => InSeq(f.root \o <<"/">> \o f.name,
                            DiffTool_files(diff_tools, DEFAULT_BRANCH, m).val)

====
